---- MODULE Spec2Model ----
(***************************************************************************)
(* Model of the Home component of src/app/page.tsx (Moviefy): the React    *)
(* state of the page, the engine (FFmpeg) it drives with its virtual file  *)
(* system, the object URLs it creates and revokes, and the asynchronous    *)
(* steps of load() and convertToVideo().                                   *)
(*                                                                         *)
(* Strings the code takes apart (file names, paths) are sequences of one-  *)
(* character strings.  Object URLs are numbered from 1 in creation order;  *)
(* 0 stands for null.  The empty sequence stands for a null File and a     *)
(* null error message.                                                     *)
(***************************************************************************)
EXTENDS Integers, Sequences, FiniteSets, TLC

\* ------------------------------------------------------------------ bounds
\* Number of files the user picks in one session.
MaxSelects == 2
\* Number of conversions that are accepted in one session.
MaxConversions == 2
\* Number of convertToVideo activations the model keeps apart at one time.
MaxJobs == 2

\* Longest file name of the specification of the file names.
MaxNameLen == 5

\* ---------------------------------------------------------------- constants
NoHandle == 0
NoFile == <<>>
NoError == <<>>

\* The files the user can pick: an upper-case extension, a gif.
Files == { <<"a", ".", "P", "N", "G">>, <<"b", ".", "g", "i", "f">> }

\* Progress fractions the engine reports, in units of 1/200: -3/200 .. 250/200.
ProgressFractions == { -3, 0, 99, 200, 250 }

\* The values an engine call rejects with: an Error object or a bare string.
ThrownValues ==
  { [isError |-> TRUE, message |-> "FS error", text |-> "Error: FS error"],
    [isError |-> FALSE, message |-> "", text |-> "Aborted()"] }

VARIABLES
  engine,      \* progress of load(): Unloaded, FetchCore, FetchWasm, Booting, Ready, Failed
  ffmpegRef,   \* ffmpegRef.current is set
  loaded, loading, image, previewUrl, videoUrl, error, progress,  \* useState
  handles,     \* every object URL created so far: slot, live, src
  fs,          \* the engine's virtual file system: path -> content
  jobs,        \* the activations of convertToVideo
  selects, started,  \* how many files were picked, conversions accepted
  lastEvent    \* the step taken last

vars == << engine, ffmpegRef, loaded, loading, image, previewUrl, videoUrl,
           error, progress, handles, fs, jobs, selects, started, lastEvent >>

\* ------------------------------------------------------------ pure helpers
Lower(c) ==
  CASE c = "P" -> "p" [] c = "N" -> "n" [] c = "G" -> "g"
    [] c = "I" -> "i" [] c = "F" -> "f" [] OTHER -> c

ToLowerCase(s) == [k \in 1..Len(s) |-> Lower(s[k])]

\* name.split('.').pop(): what follows the last '.', the whole name without one.
SplitPop(name) ==
  LET dots == { k \in 1..Len(name) : name[k] = "." }
  IN  IF dots = {} THEN name
      ELSE LET last == CHOOSE k \in dots : \A j \in dots : j <= k
           IN  SubSeq(name, last + 1, Len(name))

InputExt(name) ==
  LET e == ToLowerCase(SplitPop(name))
  IN  IF e = <<>> THEN <<"p", "n", "g">> ELSE e

InputPath(name) == <<"i", "n", "p", "u", "t", ".">> \o InputExt(name)

OutputPath == <<"o", "u", "t", "p", "u", "t", ".", "m", "p", "4">>

\* Math.min(100, Math.round(progress * 100)) for progress = k/200.
\* Math.round rounds halves up: floor(x + 1/2).
ProgressPercent(k) ==
  LET r == (k + 1) \div 2
  IN  IF r < 100 THEN r ELSE 100

\* The argument list of ffmpeg.exec.  A token is a sequence of strings: the
\* fixed tokens are one string, the paths are sequences of characters.
BuildArgs(inputExt, inputPath) ==
  LET isGif == inputExt = <<"g", "i", "f">>
  IN  << <<"-y">> >>
      \o (IF isGif THEN << >> ELSE << <<"-f">>, <<"image2">> >>)
      \o << <<"-loop">>, <<"1">>,
            <<"-i">>, inputPath,
            <<"-t">>, <<"1">>,
            <<"-c:v">>, <<"libx264">>,
            <<"-preset">>, <<"medium">>,
            <<"-crf">>, <<"18">>,
            <<"-pix_fmt">>, <<"yuv420p">>,
            <<"-vf">>, <<"scale='trunc(iw/2)*2:trunc(ih/2)*2'">>,
            OutputPath >>

\* name.lastIndexOf('.'): the 0-based index of the last '.', -1 without one.
LastIndexOf(name) ==
  LET dots == { k \in 1..Len(name) : name[k] = "." }
  IN  IF dots = {} THEN -1
      ELSE (CHOOSE k \in dots : \A j \in dots : j <= k) - 1

\* name.substring(0, end): a negative end counts as 0.
Substring0(name, end) == SubSeq(name, 1, IF end < 0 THEN 0 ELSE end)

\* Faulty variant of DownloadName: the fallback to the whole name is missing.
DownloadNameNoFallback(img) ==
  IF img # NoFile
  THEN Substring0(img, LastIndexOf(img)) \o <<".", "m", "p", "4">>
  ELSE <<"moviefy-video.mp4">>

\* The download attribute of the link: the name up to its last '.', or the
\* whole name when that is empty, followed by ".mp4"; a fixed name without image.
DownloadName(img) ==
  IF img # NoFile
  THEN LET base == Substring0(img, LastIndexOf(img))
       IN  (IF base # <<>> THEN base ELSE img) \o <<".", "m", "p", "4">>
  ELSE <<"moviefy-video.mp4">>

\* err instanceof Error ? err.message : String(err)
ErrMsg(err) == IF err.isError THEN err.message ELSE err.text

InitError == <<"Failed to initialize conversion engine. Please refresh.">>

ConversionError(msg) ==
  <<"Conversion failed (", msg, "). Please try again with a different image.">>

\* URL.createObjectURL: a new live URL, numbered next.
CreateObjectURL(hs, slot, src) ==
  Append(hs, [slot |-> slot, live |-> TRUE, src |-> src])

\* URL.revokeObjectURL: revoking twice, or revoking nothing, changes nothing.
RevokeObjectURL(hs, h) ==
  IF h \in DOMAIN hs THEN [hs EXCEPT ![h].live = FALSE] ELSE hs

\* The cleanup of the effect on [previewUrl]: when a render commits another
\* previewUrl, the URL of the render before is revoked.
PreviewEffectCleanup(hs, old, new) ==
  IF old # new /\ old # NoHandle THEN RevokeObjectURL(hs, old) ELSE hs

IdleJob ==
  [pc |-> "idle", image |-> NoFile, inputPath |-> <<>>, args |-> <<>>,
   runResult |-> "none", outcome |-> "none"]

InFlight == { i \in 1..MaxJobs : jobs[i].pc # "idle" }

\* The virtual file system as a function from the paths present.
FsWrite(f, path, content) ==
  [p \in DOMAIN f \cup {path} |-> IF p = path THEN content ELSE f[p]]

FsDelete(f, path) == [p \in DOMAIN f \ {path} |-> f[p]]

EmptyFs == [p \in {} |-> [src |-> NoFile, complete |-> TRUE]]

\* -------------------------------------------------------------------- Init
Init ==
  /\ engine = "Unloaded"
  /\ ffmpegRef = FALSE
  /\ loaded = FALSE
  /\ loading = FALSE
  /\ image = NoFile
  /\ previewUrl = NoHandle
  /\ videoUrl = NoHandle
  /\ error = NoError
  /\ progress = 0
  /\ handles = <<>>
  /\ fs = EmptyFs
  /\ jobs = [i \in 1..MaxJobs |-> IdleJob]
  /\ selects = 0
  /\ started = 0
  /\ lastEvent = "init"

\* ------------------------------------------------------------------ load()
\* The mount effect: creates the engine object, registers the handlers and
\* starts fetching the core script.
Load ==
  /\ engine = "Unloaded"
  /\ engine' = "FetchCore"
  /\ ffmpegRef' = TRUE
  /\ lastEvent' = "load"
  /\ UNCHANGED << loaded, loading, image, previewUrl, videoUrl, error,
                  progress, handles, fs, jobs, selects, started >>

\* Faulty variant of LoadFailed: the catch starts the load again.
LoadFailedRetries ==
  /\ engine' = "FetchCore"
  /\ error' = InitError
  /\ lastEvent' = "loadFailed"
  /\ UNCHANGED << ffmpegRef, loaded, loading, image, previewUrl, videoUrl,
                  progress, handles, fs, jobs, selects, started >>

\* Faulty variant of LoadFailed: setLoaded(true) runs on the failure path too.
LoadFailedSetsLoaded ==
  /\ engine' = "Failed"
  /\ error' = InitError
  /\ loaded' = TRUE
  /\ lastEvent' = "loadFailed"
  /\ UNCHANGED << ffmpegRef, loading, image, previewUrl, videoUrl,
                  progress, handles, fs, jobs, selects, started >>

\* catch (err) of load(): the fixed message, loaded stays false.
LoadFailed ==
  /\ engine' = "Failed"
  /\ error' = InitError
  /\ lastEvent' = "loadFailed"
  /\ UNCHANGED << ffmpegRef, loaded, loading, image, previewUrl, videoUrl,
                  progress, handles, fs, jobs, selects, started >>

\* setLoaded(true) after ffmpeg.load resolved.
LoadSucceeded ==
  /\ engine' = "Ready"
  /\ loaded' = TRUE
  /\ lastEvent' = "loaded"
  /\ UNCHANGED << ffmpegRef, loading, image, previewUrl, videoUrl, error,
                  progress, handles, fs, jobs, selects, started >>

\* One await of load() returns (ok) or throws: toBlobURL of the core script,
\* toBlobURL of the wasm binary, ffmpeg.load.
LoadStep(ok) ==
  /\ engine \in {"FetchCore", "FetchWasm", "Booting"}
  /\ IF ~ok THEN LoadFailed
     ELSE IF engine = "Booting" THEN LoadSucceeded
     ELSE /\ engine' = (IF engine = "FetchCore" THEN "FetchWasm" ELSE "Booting")
          /\ lastEvent' = "loadStep"
          /\ UNCHANGED << ffmpegRef, loaded, loading, image, previewUrl,
                          videoUrl, error, progress, handles, fs, jobs,
                          selects, started >>

\* The engine state of the specification.
EngineState ==
  CASE engine = "Unloaded" -> "Unloaded"
    [] engine \in {"FetchCore", "FetchWasm", "Booting"} -> "Loading"
    [] engine = "Ready" -> "Ready"
    [] OTHER -> "Failed"
\* Faulty variant of HandleUpload: setError(null) is missing.
HandleUploadKeepsError(file) ==
  /\ file \in Files \cup {NoFile}
  /\ IF file = NoFile
     THEN /\ lastEvent' = "selectNone"
          /\ UNCHANGED << previewUrl, image, videoUrl, handles, selects >>
     ELSE /\ selects < MaxSelects
          /\ LET revoked == RevokeObjectURL(handles, previewUrl)
                 created == CreateObjectURL(revoked, "preview", file)
                 url == Len(created)
             IN  /\ handles' = PreviewEffectCleanup(created, previewUrl, url)
                 /\ previewUrl' = url
          /\ image' = file
          /\ videoUrl' = NoHandle
          /\ selects' = selects + 1
          /\ lastEvent' = "select"
  /\ UNCHANGED << engine, ffmpegRef, loaded, loading, error, progress, fs,
                  jobs, started >>

\* ------------------------------------------------------------ handleUpload
\* The change event of the file input; file = NoFile when the picker gives
\* no file.
HandleUpload(file) ==
  /\ file \in Files \cup {NoFile}
  /\ IF file = NoFile
     THEN /\ lastEvent' = "selectNone"
          /\ UNCHANGED << previewUrl, image, videoUrl, error, handles, selects >>
     ELSE /\ selects < MaxSelects
          /\ LET revoked == RevokeObjectURL(handles, previewUrl)
                 created == CreateObjectURL(revoked, "preview", file)
                 url == Len(created)
             IN  /\ handles' = PreviewEffectCleanup(created, previewUrl, url)
                 /\ previewUrl' = url
          /\ image' = file
          /\ videoUrl' = NoHandle
          /\ error' = NoError
          /\ selects' = selects + 1
          /\ lastEvent' = "select"
  /\ UNCHANGED << engine, ffmpegRef, loaded, loading, progress, fs, jobs, started >>
\* Faulty variant of PrimaryActionEnabled: the button is not disabled while loading.
PrimaryActionEnabledWhileLoading ==
  /\ videoUrl = NoHandle
  /\ ~(image = NoFile \/ ~loaded)

\* ---------------------------------------------------------- convertToVideo
\* The primary action button is rendered while there is no videoUrl and is
\* disabled while !image || !loaded || loading.
PrimaryActionEnabled ==
  /\ videoUrl = NoHandle
  /\ ~(image = NoFile \/ ~loaded \/ loading)

\* The first statement of convertToVideo: if (!image || !loaded) return.
ConvertGuard == ~(image = NoFile \/ ~loaded)

FreeJob == CHOOSE i \in 1..MaxJobs : jobs[i].pc = "idle" /\ \A j \in 1..(i-1) : jobs[j].pc # "idle"

\* Faulty variant of ConvertToVideo: setError(null) is missing.
ConvertToVideoKeepsError ==
  IF ~ConvertGuard
  THEN /\ lastEvent' = "startRejected"
       /\ UNCHANGED << loading, progress, error, handles, jobs, started >>
  ELSE IF ~ffmpegRef
  THEN /\ loading' = TRUE
       /\ progress' = 0
       /\ lastEvent' = "startNoEngine"
       /\ UNCHANGED << error, handles, jobs, started >>
  ELSE /\ started < MaxConversions
       /\ \E i \in 1..MaxJobs : jobs[i].pc = "idle"
       /\ loading' = TRUE
       /\ progress' = 0
       /\ handles' = (IF videoUrl # NoHandle
                      THEN RevokeObjectURL(handles, videoUrl) ELSE handles)
       /\ jobs' = [jobs EXCEPT ![FreeJob] =
                     [pc |-> "fetch", image |-> image,
                      inputPath |-> InputPath(image),
                      args |-> <<>>, runResult |-> "none", outcome |-> "none"]]
       /\ started' = started + 1
       /\ lastEvent' = "startAccepted"
       /\ UNCHANGED error

\* Faulty variant of ConvertToVideo: setProgress(0) is missing.
ConvertToVideoKeepsProgress ==
  IF ~ConvertGuard
  THEN /\ lastEvent' = "startRejected"
       /\ UNCHANGED << loading, progress, error, handles, jobs, started >>
  ELSE IF ~ffmpegRef
  THEN /\ loading' = TRUE
       /\ error' = NoError
       /\ lastEvent' = "startNoEngine"
       /\ UNCHANGED << progress, handles, jobs, started >>
  ELSE /\ started < MaxConversions
       /\ \E i \in 1..MaxJobs : jobs[i].pc = "idle"
       /\ loading' = TRUE
       /\ error' = NoError
       /\ handles' = (IF videoUrl # NoHandle
                      THEN RevokeObjectURL(handles, videoUrl) ELSE handles)
       /\ jobs' = [jobs EXCEPT ![FreeJob] =
                     [pc |-> "fetch", image |-> image,
                      inputPath |-> InputPath(image),
                      args |-> <<>>, runResult |-> "none", outcome |-> "none"]]
       /\ started' = started + 1
       /\ lastEvent' = "startAccepted"
       /\ UNCHANGED progress

\* convertToVideo up to its first await: the guard, the three state updates,
\* the engine reference, the paths, the revocation of the videoUrl the
\* closure holds and the call of fetchFile.
ConvertToVideo ==
  IF ~ConvertGuard
  THEN /\ lastEvent' = "startRejected"
       /\ UNCHANGED << loading, progress, error, handles, jobs, started >>
  ELSE IF ~ffmpegRef
  THEN /\ loading' = TRUE
       /\ progress' = 0
       /\ error' = NoError
       /\ lastEvent' = "startNoEngine"
       /\ UNCHANGED << handles, jobs, started >>
  ELSE /\ started < MaxConversions
       /\ \E i \in 1..MaxJobs : jobs[i].pc = "idle"
       /\ loading' = TRUE
       /\ progress' = 0
       /\ error' = NoError
       /\ handles' = (IF videoUrl # NoHandle
                      THEN RevokeObjectURL(handles, videoUrl) ELSE handles)
       /\ jobs' = [jobs EXCEPT ![FreeJob] =
                     [pc |-> "fetch", image |-> image,
                      inputPath |-> InputPath(image),
                      args |-> <<>>, runResult |-> "none", outcome |-> "none"]]
       /\ started' = started + 1
       /\ lastEvent' = "startAccepted"

\* The user goes for the primary action: nothing happens unless the button
\* is rendered and enabled, and then onClick runs convertToVideo.
StartConversion ==
  /\ IF PrimaryActionEnabled
     THEN ConvertToVideo
     ELSE /\ lastEvent' = "startRejected"
          /\ UNCHANGED << loading, progress, error, handles, jobs, started >>
  /\ UNCHANGED << engine, ffmpegRef, loaded, image, previewUrl, videoUrl,
                  fs, selects >>

\* catch (err) and finally of convertToVideo.
Catch(i, err) ==
  /\ error' = ConversionError(ErrMsg(err))
  /\ loading' = FALSE
  /\ jobs' = [jobs EXCEPT ![i].pc = "idle", ![i].outcome = "error"]
  /\ lastEvent' = "conversionFailed"
\* Faulty variant of Finally: setLoading(false) is missing on the path that did not throw.
FinallyKeepsLoading(i) ==
  /\ loading' = loading
  /\ jobs' = [jobs EXCEPT ![i].pc = "idle"]
  /\ lastEvent' = "conversionDone"

\* finally of convertToVideo on the path that did not throw.
Finally(i) ==
  /\ loading' = FALSE
  /\ jobs' = [jobs EXCEPT ![i].pc = "idle"]
  /\ lastEvent' = "conversionDone"

\* await fetchFile(image) returns or throws; on return writeFile is called.
FetchFileDone(i, ok, err) ==
  /\ jobs[i].pc = "fetch"
  /\ IF ok
     THEN /\ jobs' = [jobs EXCEPT ![i].pc = "write"]
          /\ lastEvent' = "fetched"
          /\ UNCHANGED << loading, error >>
     ELSE Catch(i, err)
  /\ UNCHANGED << engine, ffmpegRef, loaded, image, previewUrl, videoUrl,
                  progress, handles, fs, selects, started >>

\* await ffmpeg.writeFile(inputPath, fileData) returns or throws; on return
\* the arguments are built and ffmpeg.exec is called.
WriteFileDone(i, ok, err) ==
  /\ jobs[i].pc = "write"
  /\ IF ok
     THEN /\ fs' = FsWrite(fs, jobs[i].inputPath,
                           [src |-> jobs[i].image, complete |-> TRUE])
          /\ jobs' = [jobs EXCEPT ![i].pc = "exec",
                                  ![i].args = BuildArgs(InputExt(jobs[i].image),
                                                        jobs[i].inputPath)]
          /\ lastEvent' = "written"
          /\ UNCHANGED << loading, error >>
     ELSE /\ Catch(i, err)
          /\ UNCHANGED fs
  /\ UNCHANGED << engine, ffmpegRef, loaded, image, previewUrl, videoUrl,
                  progress, handles, selects, started >>

\* The progress handler registered by load(): the engine reports a fraction
\* while an exec is running.
OnProgress(k) ==
  /\ k \in ProgressFractions
  /\ \E i \in 1..MaxJobs : jobs[i].pc = "exec"
  /\ progress' = ProgressPercent(k)
  /\ lastEvent' = "progress"
  /\ UNCHANGED << engine, ffmpegRef, loaded, loading, image, previewUrl,
                  videoUrl, error, handles, fs, jobs, selects, started >>

\* What a run leaves at the output path: the whole video when it exits with
\* 0; after a failure either nothing new or a partial file.
FsAfterExec(f, inputPath, result, wrote) ==
  IF inputPath \in DOMAIN f /\ (result = "ok" \/ wrote)
  THEN FsWrite(f, OutputPath,
               [src |-> f[inputPath].src, complete |-> (result = "ok")])
  ELSE f

\* await ffmpeg.exec(args) resolves with exit code 0 ("ok"), resolves with a
\* non-zero exit code ("nonzero"), or rejects ("throw").  The code does not
\* look at the exit code: whenever exec resolves, readFile is called.
ExecDone(i, result, wrote, err) ==
  /\ jobs[i].pc = "exec"
  /\ result \in {"ok", "nonzero", "throw"}
  /\ result = "ok" => jobs[i].inputPath \in DOMAIN fs
  /\ fs' = FsAfterExec(fs, jobs[i].inputPath, result, wrote)
  /\ IF result = "throw"
     THEN /\ error' = ConversionError(ErrMsg(err))
          /\ loading' = FALSE
          /\ jobs' = [jobs EXCEPT ![i].pc = "idle", ![i].outcome = "error",
                                  ![i].runResult = result]
          /\ lastEvent' = "runThrew"
     ELSE /\ jobs' = [jobs EXCEPT ![i].pc = "read", ![i].runResult = result]
          /\ lastEvent' = (IF result = "ok" THEN "ran" ELSE "runNonzero")
          /\ UNCHANGED << loading, error >>
  /\ UNCHANGED << engine, ffmpegRef, loaded, image, previewUrl, videoUrl,
                  progress, handles, selects, started >>

\* await ffmpeg.readFile(outputPath): throws when the path is absent; on
\* return the video URL is created and set and deleteFile(inputPath) is called.
ReadFileDone(i, err) ==
  /\ jobs[i].pc = "read"
  /\ IF OutputPath \in DOMAIN fs
     THEN /\ handles' = CreateObjectURL(handles, "output", fs[OutputPath].src)
          /\ videoUrl' = Len(handles')
          /\ jobs' = [jobs EXCEPT ![i].pc = "deleteInput", ![i].outcome = "success"]
          /\ lastEvent' = "videoSet"
          /\ UNCHANGED << loading, error >>
     ELSE /\ Catch(i, err)
          /\ UNCHANGED << handles, videoUrl >>
  /\ UNCHANGED << engine, ffmpegRef, loaded, image, previewUrl, progress,
                  fs, selects, started >>

\* await ffmpeg.deleteFile(inputPath): throws when the path is absent, and
\* the inner catch then skips deleteFile(outputPath).
DeleteInputDone(i) ==
  /\ jobs[i].pc = "deleteInput"
  /\ IF jobs[i].inputPath \in DOMAIN fs
     THEN /\ fs' = FsDelete(fs, jobs[i].inputPath)
          /\ jobs' = [jobs EXCEPT ![i].pc = "deleteOutput"]
          /\ lastEvent' = "inputDeleted"
          /\ UNCHANGED loading
     ELSE /\ Finally(i)
          /\ UNCHANGED fs
  /\ UNCHANGED << engine, ffmpegRef, loaded, image, previewUrl, videoUrl,
                  error, progress, handles, selects, started >>

\* await ffmpeg.deleteFile(outputPath), its error swallowed, then finally.
DeleteOutputDone(i) ==
  /\ jobs[i].pc = "deleteOutput"
  /\ fs' = FsDelete(fs, OutputPath)
  /\ Finally(i)
  /\ UNCHANGED << engine, ffmpegRef, loaded, image, previewUrl, videoUrl,
                  error, progress, handles, selects, started >>

\* Faulty variant of Reset: setPreviewUrl(null) is missing.
ResetKeepsPreviewUrl ==
  /\ videoUrl # NoHandle
  /\ handles' = (IF previewUrl # NoHandle
                 THEN RevokeObjectURL(handles, previewUrl) ELSE handles)
  /\ image' = NoFile
  /\ videoUrl' = NoHandle
  /\ lastEvent' = "reset"
  /\ UNCHANGED << engine, ffmpegRef, loaded, loading, previewUrl, error,
                  progress, fs, jobs, selects, started >>

\* ------------------------------------------------------------- New Project
\* onClick of the New Project button, rendered while there is a videoUrl.
Reset ==
  /\ videoUrl # NoHandle
  /\ handles' = PreviewEffectCleanup(
                  (IF previewUrl # NoHandle
                   THEN RevokeObjectURL(handles, previewUrl) ELSE handles),
                  previewUrl, NoHandle)
  /\ previewUrl' = NoHandle
  /\ image' = NoFile
  /\ videoUrl' = NoHandle
  /\ lastEvent' = "reset"
  /\ UNCHANGED << engine, ffmpegRef, loaded, loading, error, progress, fs,
                  jobs, selects, started >>

\* ------------------------------------------------------------------- Spec
EngineStep ==
  \E i \in 1..MaxJobs : \E ok \in BOOLEAN : \E err \in ThrownValues :
    \/ FetchFileDone(i, ok, err)
    \/ WriteFileDone(i, ok, err)
    \/ \E result \in {"ok", "nonzero", "throw"} : ExecDone(i, result, ok, err)
    \/ ReadFileDone(i, err)
    \/ DeleteInputDone(i)
    \/ DeleteOutputDone(i)

Next ==
  \/ Load
  \/ \E ok \in BOOLEAN : LoadStep(ok)
  \/ \E file \in Files \cup {NoFile} : HandleUpload(file)
  \/ StartConversion
  \/ \E k \in ProgressFractions : OnProgress(k)
  \/ EngineStep
  \/ Reset

Spec == Init /\ [][Next]_vars

\* Every engine call eventually returns or throws.
LiveSpec == Spec /\ WF_vars(EngineStep)

\* ------------------------------------------------------------- file names
\* The session of a file of any name: the state after a load that succeeded
\* and the selection of one file, its name any sequence of at most
\* MaxNameLen of these characters, and from there the conversion of that
\* file by an engine whose calls succeed.
NameChars == {".", "g", "i", "f", "G"}

Names == UNION { [1..n -> NameChars] : n \in 1..MaxNameLen }

NameInit ==
  /\ engine = "Ready"
  /\ ffmpegRef = TRUE
  /\ loaded = TRUE
  /\ loading = FALSE
  /\ image \in Names
  /\ previewUrl = 1
  /\ videoUrl = NoHandle
  /\ error = NoError
  /\ progress = 0
  /\ handles = CreateObjectURL(<<>>, "preview", image)
  /\ fs = EmptyFs
  /\ jobs = [i \in 1..MaxJobs |-> IdleJob]
  /\ selects = 1
  /\ started = 0
  /\ lastEvent = "select"

NameNext ==
  \/ StartConversion
  \/ \E i \in 1..MaxJobs : \E err \in ThrownValues :
       \/ FetchFileDone(i, TRUE, err)
       \/ WriteFileDone(i, TRUE, err)
       \/ ExecDone(i, "ok", TRUE, err)
       \/ ReadFileDone(i, err)
       \/ DeleteInputDone(i)
       \/ DeleteOutputDone(i)

NameSpec == NameInit /\ [][NameNext]_vars

\* ================================================================= claims
StartEvents == {"startAccepted", "startRejected", "startNoEngine"}
FailEvents == {"conversionFailed", "runThrew"}
FinishEvents == FailEvents \cup {"conversionDone"}
LiveHandles(slot) ==
  { h \in DOMAIN handles : handles[h].live /\ handles[h].slot = slot }

\* C1: once a conversion has finished, by success or by failure, the virtual
\* file system holds neither its input path nor the output path.
C1_CleanupOnEveryExit ==
  \A i \in 1..MaxJobs :
    (jobs[i].pc = "idle" /\ jobs[i].outcome # "none" /\ InFlight = {})
      => /\ jobs[i].inputPath \notin DOMAIN fs
         /\ OutputPath \notin DOMAIN fs

\* C2: at most one conversion is in flight, and an attempt to start one while
\* loading is true is rejected and changes neither the jobs nor the file system.
C2_OneRunInFlight ==
  /\ [](Cardinality(InFlight) <= 1 /\ (InFlight # {} => loading))
  /\ [][(loading /\ lastEvent' \in StartEvents)
          => (lastEvent' = "startRejected" /\ jobs' = jobs /\ fs' = fs)]_vars

C2_Witness ==
  /\ lastEvent = "startRejected"
  /\ loading
  /\ \E i \in 1..MaxJobs : jobs[i].pc = "exec"

\* C3: each slot (preview, output) has at most one live object URL.
C3_OneLiveHandlePerSlot ==
  \A slot \in {"preview", "output"} : Cardinality(LiveHandles(slot)) <= 1

\* C4: while the engine is not Ready no conversion is accepted and no
\* activation of convertToVideo is in flight: a run needs a completed load.
C4_NoRunUnlessReady ==
  EngineState # "Ready"
    => /\ InFlight = {}
       /\ ~loading
       /\ ~loaded
       /\ lastEvent \notin {"startAccepted", "startNoEngine"}

C4_Witness ==
  /\ lastEvent = "startRejected"
  /\ image # NoFile
  /\ EngineState \in {"Loading", "Failed"}

\* C5: every accepted conversion ends: its activation finishes with loading
\* false and with exactly one of the two outcomes, success (the videoUrl was
\* set, no error) or error (the message was set, no videoUrl).
C5_ConversionResolves ==
  /\ \A i \in 1..MaxJobs :
       (jobs[i].pc # "idle")
         ~> (jobs[i].pc = "idle" /\ ~loading
             /\ jobs[i].outcome \in {"success", "error"})
  /\ [](lastEvent = "videoSet" => (videoUrl # NoHandle /\ error = NoError))
  /\ [](lastEvent \in FailEvents
          => (error # NoError /\ videoUrl = NoHandle /\ ~loading))

C5_Witness ==
  /\ lastEvent = "conversionDone"
  /\ ~loading
  /\ jobs[1].outcome = "success"
  /\ videoUrl # NoHandle

\* C6: New Project in the Success state leaves no source, no preview, no
\* video, and no object URL of the session live.
C6_ResetRevokesBoth ==
  (lastEvent = "reset" /\ ~loading)
    => /\ image = NoFile
       /\ previewUrl = NoHandle
       /\ videoUrl = NoHandle
       /\ \A h \in DOMAIN handles : ~handles[h].live

\* C7: a conversion whose run failed ends in Error: the source and its live
\* preview are still there, there is no videoUrl, loading is false and the
\* message is the fixed text around the message of the failure.
C7_RunFailureEndsInError ==
  \A i \in 1..MaxJobs :
    (lastEvent \in FinishEvents /\ jobs[i].pc = "idle"
       /\ jobs[i].runResult \in {"nonzero", "throw"})
      => /\ jobs[i].outcome = "error"
         /\ image # NoFile
         /\ previewUrl \in LiveHandles("preview")
         /\ videoUrl = NoHandle
         /\ ~loading
         /\ \E err \in ThrownValues : error = ConversionError(ErrMsg(err))

\* C8: in the state a failed conversion leaves, progress is 0.
C8_ProgressResetOnFailure ==
  lastEvent \in FailEvents => progress = 0

\* C8 as amended: a failing step leaves progress as the engine last reported
\* it; progress is 0 right after a conversion is accepted.
C8_ProgressKeptOnFailure ==
  /\ [][lastEvent' \in FailEvents => progress' = progress]_vars
  /\ [](lastEvent = "startAccepted" => progress = 0)

C8_Witness ==
  /\ lastEvent = "runThrew"
  /\ progress = 50
  /\ ~loading

\* C9: readFile is not called after a run that failed, by throwing or by a
\* non-zero exit code.
C9_NoReadAfterFailedRun ==
  \A i \in 1..MaxJobs : jobs[i].pc = "read" => jobs[i].runResult = "ok"

\* C10: after a file was selected the session is HasSource with that file:
\* no error, progress 0, no conversion in flight.
C10_SelectResets ==
  lastEvent = "select"
    => /\ image \in Files
       /\ error = NoError
       /\ progress = 0
       /\ ~loading

\* C10 as amended: selecting a file makes it the source with a new live
\* preview URL, drops the videoUrl and the error, and leaves progress and
\* loading as they were.
C10_SelectKeepsProgress ==
  [][lastEvent' = "select"
       => /\ image' \in Files
          /\ previewUrl' \in { h \in DOMAIN handles' :
                                 handles'[h].live /\ handles'[h].src = image' }
          /\ previewUrl' \notin DOMAIN handles
          /\ videoUrl' = NoHandle
          /\ error' = NoError
          /\ progress' = progress
          /\ loading' = loading]_vars

C10_Witness ==
  /\ lastEvent = "select"
  /\ loading
  /\ progress = 50
  /\ \E i \in 1..MaxJobs : jobs[i].pc = "exec" /\ jobs[i].image # image

\* How far load() has come.
EngineRank(e) ==
  CASE e = "Unloaded" -> 0 [] e = "FetchCore" -> 1 [] e = "FetchWasm" -> 2
    [] e = "Booting" -> 3 [] OTHER -> 4

\* C11: the engine only moves forward along Unloaded, Loading, Ready or
\* Failed; a load starts only from Unloaded; Ready and Failed are never left;
\* while Failed, loaded is false and no conversion is accepted or in flight.
C11_EngineMonotonic ==
  /\ [][/\ EngineRank(engine') >= EngineRank(engine)
        /\ (engine \in {"Ready", "Failed"} => engine' = engine)
        /\ (lastEvent' = "load" => engine = "Unloaded")]_vars
  /\ [](EngineState = "Failed"
          => /\ ~loaded
             /\ ~loading
             /\ InFlight = {}
             /\ started = 0
             /\ lastEvent \notin {"startAccepted", "startNoEngine", "load"})

C11_Witness ==
  /\ engine = "Failed"
  /\ lastEvent = "startRejected"
  /\ image # NoFile
  /\ selects = MaxSelects

\* C12: the stored progress is an integer percentage from 0 to 100, whatever
\* fraction the engine reports.
C12_ProgressInRange == progress \in 0..100

\* C16: the URL stored for the preview and the URL stored for the video are
\* each null or a live URL of that slot: a revoked URL is never rendered.
C16_StoredHandlesLive ==
  /\ previewUrl # NoHandle => previewUrl \in LiveHandles("preview")
  /\ videoUrl # NoHandle => videoUrl \in LiveHandles("output")

C16_Witness ==
  /\ videoUrl # NoHandle
  /\ previewUrl # NoHandle
  /\ \E h \in DOMAIN handles : ~handles[h].live

\* C17: a video that is displayed was made from the file that is the source
\* now.
C17_OutputFromCurrentSource ==
  videoUrl # NoHandle => handles[videoUrl].src = image

\* C18: driven through the enabled surface actions, the page never holds a
\* videoUrl and an error message at once.
C18_SuccessExcludesError ==
  ~(videoUrl # NoHandle /\ error # NoError)

C18_Witness ==
  /\ lastEvent = "videoSet"
  /\ started = 2
  /\ selects = 1
  /\ error = NoError

\* C19: while the engine is Failed the initialization message is displayed.
C19_InitErrorStays ==
  EngineState = "Failed" => error = InitError

\* The position of the last '.' of a name, 0 without one.
LastDot(name) ==
  LET dots == { k \in 1..Len(name) : name[k] = "." }
  IN  IF dots = {} THEN 0 ELSE CHOOSE k \in dots : \A j \in dots : j <= k

\* What follows the last '.', in lower case; nothing for a name without '.'.
SourceExt(name) ==
  IF LastDot(name) = 0 THEN <<>>
  ELSE ToLowerCase(SubSeq(name, LastDot(name) + 1, Len(name)))

RecognizedExts == { <<"g", "i", "f">>, <<"p", "n", "g">> }

\* C13: the argument list starts with "-y" and ends with the output path;
\* it has no "-f" "image2" when the extension of the source is gif in any
\* case, and has it, before "-i", for every other source.
C13_DecodeHintUnlessGif ==
  \A i \in 1..MaxJobs :
    jobs[i].args # <<>>
      => LET a == jobs[i].args
             hint == { k \in 1..(Len(a) - 1) :
                         a[k] = <<"-f">> /\ a[k + 1] = <<"image2">> }
             input == { k \in 1..Len(a) : a[k] = <<"-i">> }
         IN  /\ a[1] = <<"-y">>
             /\ a[Len(a)] = OutputPath
             /\ input # {}
             /\ IF SourceExt(jobs[i].image) = <<"g", "i", "f">>
                THEN hint = {}
                ELSE hint # {} /\ \A k \in hint : \A j \in input : k < j

\* C14: the input path is "input." and the extension of the source, or
\* "input.png" when the name has no '.', has nothing after its last '.', or
\* has an extension that is not a recognized one.
C14_InputPathDefaultsToPng ==
  \A i \in 1..MaxJobs :
    jobs[i].pc # "idle"
      => jobs[i].inputPath =
           <<"i", "n", "p", "u", "t", ".">>
             \o (IF SourceExt(jobs[i].image) \in RecognizedExts
                 THEN SourceExt(jobs[i].image) ELSE <<"p", "n", "g">>)

\* C15: the download name of a displayed video is the name of the source up
\* to its last '.', followed by ".mp4"; for a name without extension (no '.',
\* or none but its first character) it is the whole name followed by ".mp4".
C15_DownloadNameStripsExtension ==
  videoUrl # NoHandle
    => DownloadName(image) =
         (IF LastDot(image) > 1 THEN SubSeq(image, 1, LastDot(image) - 1)
          ELSE image) \o <<".", "m", "p", "4">>

C15_Witness ==
  /\ videoUrl # NoHandle
  /\ image = <<"g", ".", "G", "i", "f">>
  /\ DownloadName(image) = <<"g", ".", "m", "p", "4">>

====
